---- MODULE Spec2Model ----
(***************************************************************************)
(* Model of whatsapp_agent.py: the instruction-to-step compiler            *)
(* (parse_steps, markdown_line_to_text), the recipient normalizer          *)
(* (normalize_phone_number) and the step executor (the loop of main).      *)
(*                                                                         *)
(* A Python str is a sequence of one-character strings.  The alphabet is   *)
(* ASCII: whitespace is space, tab and newline, the only line boundary is  *)
(* "\n", digits are 0-9.  A float is its value in thousandths of a second. *)
(***************************************************************************)
EXTENDS Integers, Sequences, FiniteSets

VARIABLES
  fileExists,          \* instructions_path.exists()
  suffix,              \* instructions_path.suffix.lower()
  dryRun,              \* args.dry_run
  token,               \* WHATSAPP_TOKEN after strip (a str)
  phone_number_id,     \* WHATSAPP_PHONE_NUMBER_ID after strip (a str)
  to,                  \* args.to
  delay_seconds,       \* args.delay_seconds, in thousandths
  source,              \* the text of the instruction file, once read
  normalized_lines,    \* parse_steps' normalized_lines (fallback pass only)
  steps,               \* the compiled step sequence
  has_explicit_waits,  \* main's has_explicit_waits
  pc,                  \* where the program is
  idx,                 \* 1-based index of the step the loop is at
  sent_count,          \* main's sent_count
  status,              \* the process' exit status, -1 while running
  error,               \* what ended the run, "" if nothing did
  visited,             \* indices of the steps the loop has begun, in order
  delivered,           \* the message of every send_whatsapp_text call, in order
  pauses               \* the argument of every time.sleep call, in order

vars == <<fileExists, suffix, dryRun, token, phone_number_id, to, delay_seconds,
          source, normalized_lines, steps, has_explicit_waits, pc, idx,
          sent_count, status, error, visited, delivered, pauses>>

(***************************************************************************)
(* Bounds of the model.                                                    *)
(***************************************************************************)
\* lines of an instruction file handed to parse_steps alone
MaxLines == 3
\* lines of an instruction file of a whole run
MaxRunLines == 3
\* marker pieces in front of the body of a markup line
MaxMarkers == 2

(***************************************************************************)
(* Characters and str helpers.                                             *)
(***************************************************************************)
Space == {" ", "\t", "\n"}
Digits == {"0", "1", "2", "3", "4", "5", "6", "7", "8", "9"}

DigitValue(c) ==
  CASE c = "0" -> 0 [] c = "1" -> 1 [] c = "2" -> 2 [] c = "3" -> 3
    [] c = "4" -> 4 [] c = "5" -> 5 [] c = "6" -> 6 [] c = "7" -> 7
    [] c = "8" -> 8 [] c = "9" -> 9

\* s[n:]
Drop(s, n) == SubSeq(s, n + 1, Len(s))

\* s[:n]
Take(s, n) == SubSeq(s, 1, n)

\* the length of the longest prefix of s made of characters of set: what a
\* greedy cls* consumes at the start of s
RECURSIVE Span(_, _)
Span(s, set) ==
  IF s # <<>> /\ Head(s) \in set THEN 1 + Span(Tail(s), set) ELSE 0

\* str.strip()
strip(s) ==
  LET l == Drop(s, Span(s, Space))
      n == Len(l)
      keep == {i \in 1..n : l[i] \notin Space}
      last == IF keep = {} THEN 0 ELSE CHOOSE i \in keep : \A j \in keep : j <= i
  IN Take(l, last)

\* case folding of re.I, for the letters of the two directive words
Upper(c) ==
  CASE c = "s" -> "S" [] c = "e" -> "E" [] c = "n" -> "N" [] c = "d" -> "D"
    [] c = "w" -> "W" [] c = "a" -> "A" [] c = "i" -> "I" [] c = "t" -> "T"
    [] OTHER -> c

\* a literal at the start of s, matched case-insensitively (re.I)
StartsWithI(s, lit) ==
  /\ Len(s) >= Len(lit)
  /\ \A i \in 1..Len(lit) : Upper(s[i]) = lit[i]

\* int() of a string of decimal digits
RECURSIVE DecimalValue(_)
DecimalValue(ds) ==
  IF ds = <<>> THEN 0
  ELSE 10 * DecimalValue(Take(ds, Len(ds) - 1)) + DigitValue(ds[Len(ds)])

\* float() of "digits" or "digits.digits", in thousandths
float(num) ==
  LET n == Span(num, Digits)
      frac == IF n < Len(num) THEN Drop(num, n + 1) ELSE <<>>
      f3 == Take(frac \o <<"0", "0", "0">>, 3)
  IN 1000 * DecimalValue(Take(num, n)) + DecimalValue(f3)

\* sep.join(parts)
RECURSIVE join(_, _)
join(sep, parts) ==
  IF parts = <<>> THEN <<>>
  ELSE IF Len(parts) = 1 THEN parts[1]
  ELSE parts[1] \o sep \o join(sep, Tail(parts))

\* str.splitlines(): a trailing line boundary opens no further line
RECURSIVE SplitLinesFrom(_, _)
SplitLinesFrom(text, cur) ==
  IF text = <<>> THEN (IF cur = <<>> THEN <<>> ELSE <<cur>>)
  ELSE IF Head(text) = "\n" THEN <<cur>> \o SplitLinesFrom(Tail(text), <<>>)
  ELSE SplitLinesFrom(Tail(text), Append(cur, Head(text)))

splitlines(text) == SplitLinesFrom(text, <<>>)

(***************************************************************************)
(* normalize_phone_number                                                  *)
(***************************************************************************)
\* re.sub(r"\D", "", phone)
RECURSIVE DigitsOf(_)
DigitsOf(phone) ==
  IF phone = <<>> THEN <<>>
  ELSE IF Head(phone) \in Digits THEN <<Head(phone)>> \o DigitsOf(Tail(phone))
  ELSE DigitsOf(Tail(phone))

\* the lower bound off by one
PhoneOkOffByOne(phone) == 7 <= Len(DigitsOf(phone)) /\ Len(DigitsOf(phone)) <= 15

\* 8 <= len(digits) <= 15: normalize_phone_number returns, does not raise
PhoneOk(phone) == 8 <= Len(DigitsOf(phone)) /\ Len(DigitsOf(phone)) <= 15

(***************************************************************************)
(* markdown_line_to_text                                                   *)
(***************************************************************************)
\* a heading marker taken behind any indentation
SubHeadingAnyIndent(line) ==
  LET r1 == Drop(line, Span(line, Space))
      h == Span(r1, {"#"})
      r2 == Drop(r1, IF h > 6 THEN 6 ELSE h)
  IN IF h >= 1 THEN Drop(r2, Span(r2, Space)) ELSE line

\* re.sub(r"^\s{0,3}#{1,6}\s*", "", line).  "#" is no whitespace, so the
\* match needs the whole leading whitespace to be at most 3 characters.
SubHeading(line) ==
  LET ws == Span(line, Space)
      r1 == Drop(line, ws)
      h == Span(r1, {"#"})
      hh == IF h > 6 THEN 6 ELSE h
      r2 == Drop(r1, hh)
  IN IF ws <= 3 /\ h >= 1 THEN Drop(r2, Span(r2, Space)) ELSE line

\* re.sub(r"^\s*[-*+]\s+", "", line)
SubBullet(line) ==
  LET r1 == Drop(line, Span(line, Space))
      r2 == Drop(r1, 1)
  IN IF r1 # <<>> /\ r1[1] \in {"-", "*", "+"} /\ Span(r2, Space) >= 1
     THEN Drop(r2, Span(r2, Space)) ELSE line

\* re.sub(r"^\s*\d+\.\s+", "", line)
SubNumbered(line) ==
  LET r1 == Drop(line, Span(line, Space))
      d == Span(r1, Digits)
      r2 == Drop(r1, d)
      r3 == Drop(r2, 1)
  IN IF d >= 1 /\ r2 # <<>> /\ r2[1] = "." /\ Span(r3, Space) >= 1
     THEN Drop(r3, Span(r3, Space)) ELSE line

\* re.sub(r"^\s*>\s*", "", line)
SubQuote(line) ==
  LET r1 == Drop(line, Span(line, Space))
      r2 == Drop(r1, 1)
  IN IF r1 # <<>> /\ r1[1] = ">" THEN Drop(r2, Span(r2, Space)) ELSE line

markdown_line_to_text(line) ==
  strip(SubQuote(SubNumbered(SubBullet(SubHeading(line)))))

(***************************************************************************)
(* parse_steps                                                             *)
(***************************************************************************)
SendStep(text) == [kind |-> "SendStep", text |-> text]
WaitStep(seconds) == [kind |-> "WaitStep", seconds |-> seconds]

kWAIT == <<"W", "A", "I", "T", ":">>
kSEND == <<"S", "E", "N", "D", ":">>

\* re.match(r"^WAIT:\s*([0-9]+(?:\.[0-9]+)?)\s*$", stripped, re.I):
\* group(1), or <<>> when the line does not match
wait_match(stripped) ==
  LET r0 == Drop(stripped, Len(kWAIT))
      r1 == Drop(r0, Span(r0, Space))
      n == Span(r1, Digits)
      r2 == Drop(r1, n)
      f == IF r2 # <<>> /\ r2[1] = "." THEN Span(Drop(r2, 1), Digits) ELSE 0
      len == IF f >= 1 THEN n + 1 + f ELSE n
      r3 == Drop(r1, len)
  IN IF StartsWithI(stripped, kWAIT) /\ n >= 1 /\ Span(r3, Space) = Len(r3)
     THEN Take(r1, len) ELSE <<>>

\* re.match(r"^SEND:\s*(.+)\s*$", stripped, re.I) on a line without "\n":
\* group(1), or <<>> when the line does not match.  \s* is greedy and gives
\* back one character only when nothing else is left for .+
send_match(stripped) ==
  LET r0 == Drop(stripped, Len(kSEND))
      r1 == Drop(r0, Span(r0, Space))
  IN IF ~StartsWithI(stripped, kSEND) \/ r0 = <<>> THEN <<>>
     ELSE IF r1 # <<>> THEN r1
     ELSE <<r0[Len(r0)]>>

\* a SEND: line taken as a message whatever follows the colon
DirectiveStepsAnySend(line) ==
  LET stripped == strip(line)
  IN IF stripped = <<>> THEN <<>>
     ELSE IF wait_match(stripped) # <<>>
          THEN <<WaitStep(float(wait_match(stripped)))>>
     ELSE IF StartsWithI(stripped, kSEND)
          THEN <<SendStep(strip(Drop(stripped, Len(kSEND))))>>
     ELSE <<>>

\* one iteration of the directive loop: the steps the line appends
DirectiveSteps(line) ==
  LET stripped == strip(line)
  IN IF stripped = <<>> THEN <<>>
     ELSE IF wait_match(stripped) # <<>>
          THEN <<WaitStep(float(wait_match(stripped)))>>
     ELSE IF send_match(stripped) # <<>>
          THEN <<SendStep(strip(send_match(stripped)))>>
     ELSE <<>>

\* the directive loop over all lines
RECURSIVE DirectivePass(_)
DirectivePass(lines) ==
  IF lines = <<>> THEN <<>>
  ELSE DirectiveSteps(Head(lines)) \o DirectivePass(Tail(lines))

\* the normalized_lines of the fallback pass
NormalizedLines(lines, extension) ==
  [i \in 1..Len(lines) |->
     IF extension = ".md" THEN markdown_line_to_text(lines[i])
     ELSE strip(lines[i])]

\* where a match of \n\s*\n that starts at text[i] = "\n" ends: at the last
\* "\n" of the whitespace that follows; 0 when there is none
SeparatorEnd(text, i) ==
  LET run == Span(Drop(text, i), Space)
      nl == {j \in (i + 1)..(i + run) : text[j] = "\n"}
  IN IF nl = {} THEN 0 ELSE CHOOSE j \in nl : \A k \in nl : k <= j

\* re.split(r"\n\s*\n", text) from position i on, cur being the piece so far
RECURSIVE SplitFrom(_, _, _)
SplitFrom(text, i, cur) ==
  IF i > Len(text) THEN <<cur>>
  ELSE IF text[i] = "\n" /\ SeparatorEnd(text, i) > 0
       THEN <<cur>> \o SplitFrom(text, SeparatorEnd(text, i) + 1, <<>>)
  ELSE SplitFrom(text, i + 1, Append(cur, text[i]))

re_split(text) == SplitFrom(text, 1, <<>>)

\* [block.strip() for block in pieces if block.strip()]
RECURSIVE StripBlocks(_)
StripBlocks(pieces) ==
  IF pieces = <<>> THEN <<>>
  ELSE IF strip(Head(pieces)) # <<>>
       THEN <<strip(Head(pieces))>> \o StripBlocks(Tail(pieces))
  ELSE StripBlocks(Tail(pieces))

\* the block left as it is
re_sub_newlines_kept(block) == block

\* re.sub(r"\n+", " ", block)
RECURSIVE re_sub_newlines(_)
re_sub_newlines(block) ==
  IF block = <<>> THEN <<>>
  ELSE IF Head(block) = "\n"
       THEN <<" ">> \o re_sub_newlines(Drop(block, Span(block, {"\n"})))
  ELSE <<Head(block)>> \o re_sub_newlines(Tail(block))

\* the loop over the blocks
RECURSIVE BlockSteps(_)
BlockSteps(blocks) ==
  IF blocks = <<>> THEN <<>>
  ELSE LET cleaned == strip(re_sub_newlines(Head(blocks)))
       IN (IF cleaned # <<>> THEN <<SendStep(cleaned)>> ELSE <<>>)
          \o BlockSteps(Tail(blocks))

\* the fallback (paragraph) pass
FallbackPass(lines, extension) ==
  BlockSteps(StripBlocks(re_split(join(<<"\n">>, NormalizedLines(lines, extension)))))

\* both passes, one after the other
parse_steps_both(text, extension) ==
  DirectivePass(splitlines(text)) \o FallbackPass(splitlines(text), extension)

parse_steps(text, extension) ==
  LET lines == splitlines(text)
      directives == DirectivePass(lines)
  IN IF directives # <<>> THEN directives ELSE FallbackPass(lines, extension)

(***************************************************************************)
(* Inputs.                                                                 *)
(***************************************************************************)
\* all sequences of at most n elements of S
SeqsUpTo(S, n) == UNION {[1..k -> S] : k \in 0..n}

\* the lines instruction files are made of: blank lines, directives in both
\* cases and with or without spaces, a SEND: with nothing behind it, a WAIT:
\* without a number, prose, markup, a heading marker with nothing behind it
CompileLines ==
  { <<>>,
    <<" ">>,
    kSEND \o <<" ", "H", "i">>,
    <<" ", "s", "e", "n", "d", ":", "Y", "o", " ">>,
    kSEND,
    kWAIT \o <<" ", "5">>,
    <<"w", "a", "i", "t", ":", "1", ".", "5", " ">>,
    kWAIT \o <<" ", "x">>,
    <<"H", "i", " ", "y", "o">>,
    <<"\t", "a", " ">>,
    <<"#", " ", "H", "i">>,
    <<"#">> }

CompileTexts == {join(<<"\n">>, ls) : ls \in SeqsUpTo(CompileLines, MaxLines)}

\* what may stand in front of the body of a markup line
MarkerPieces ==
  { <<"#">>, <<"#", " ">>, <<"#", "#", "#", "#", "#", "#", "#", " ">>,
    <<"-", " ">>, <<"*", " ">>, <<"+">>, <<"1", ".", " ">>, <<"1", "2", ".">>,
    <<">">>, <<">", " ">>, <<" ">>, <<" ", " ", " ", " ">> }

MarkupBodies ==
  { <<>>, <<"x">>, <<"a", " ", "b", " ">>,
    <<"H", "e", "l", "l", "o">>, <<"i", "t", "e", "m">>,
    <<"q", "u", "o", "t", "e">>, <<"f", "i", "r", "s", "t">> }

RECURSIVE concat(_)
concat(parts) == IF parts = <<>> THEN <<>> ELSE Head(parts) \o concat(Tail(parts))

MarkupLines ==
  {concat(ms) \o b : ms \in SeqsUpTo(MarkerPieces, MaxMarkers), b \in MarkupBodies}

(***************************************************************************)
(* parse_steps alone: the inputs are drawn, Compile applies it.            *)
(***************************************************************************)
Idle ==
  /\ fileExists = TRUE /\ dryRun = TRUE
  /\ token = <<>> /\ phone_number_id = <<>> /\ to = <<>>
  /\ delay_seconds = 0
  /\ has_explicit_waits = FALSE
  /\ idx = 1 /\ sent_count = 0 /\ status = -1 /\ error = ""
  /\ visited = <<>> /\ delivered = <<>> /\ pauses = <<>>

InitCompile ==
  /\ Idle
  /\ source \in CompileTexts
  /\ suffix \in {".txt", ".md"}
  /\ normalized_lines = <<>> /\ steps = <<>>
  /\ pc = "parse_steps"

InitNormalize ==
  /\ Idle
  /\ source \in MarkupLines
  /\ suffix \in {".txt", ".md"}
  /\ normalized_lines = <<>> /\ steps = <<>>
  /\ pc = "parse_steps"

Compile ==
  /\ pc = "parse_steps"
  /\ steps' = parse_steps(source, suffix)
  /\ normalized_lines' =
       IF DirectivePass(splitlines(source)) # <<>> THEN <<>>
       ELSE NormalizedLines(splitlines(source), suffix)
  /\ pc' = "parsed"
  /\ UNCHANGED <<fileExists, suffix, dryRun, token, phone_number_id, to,
                 delay_seconds, source, has_explicit_waits, idx, sent_count,
                 status, error, visited, delivered, pauses>>

SpecCompile == InitCompile /\ [][Compile]_vars

SpecNormalize == InitNormalize /\ [][Compile]_vars

(***************************************************************************)
(* main: a whole run.                                                      *)
(***************************************************************************)
Phones ==
  { <<"1", "2", "3">>,
    <<"1", "2", "3", "4", "5", "6", "7">>,
    <<"1", "2", "3", "4", "-", "5", "6", "7", "8">>,
    <<"+", "1", " ", "(", "4", "1", "5", ")", " ", "5", "5", "5", "-", "2", "6", "7", "1">>,
    <<"1", "2", "3", "4", "5", "6", "7", "8", "9", "0", "1", "2", "3", "4", "5">>,
    <<"1", "2", "3", "4", "5", "6", "7", "8", "9", "0", "1", "2", "3", "4", "5", "6">> }

RunLines ==
  { kSEND \o <<" ", "H", "i">>,
    kWAIT \o <<" ", "5">>,
    kSEND \o <<" ", "B", "y", "e">>,
    <<"Y", "o">>,
    <<>> }

RunTexts == {join(<<"\n">>, ls) : ls \in SeqsUpTo(RunLines, MaxRunLines)}

Init ==
  /\ fileExists \in BOOLEAN
  /\ suffix \in {".txt", ".md", ".pdf"}
  /\ dryRun \in BOOLEAN
  /\ token \in {<<>>, <<"t">>}
  /\ phone_number_id \in {<<>>, <<"7">>}
  /\ to \in Phones
  /\ delay_seconds \in {0, 2000}
  /\ source = <<>> /\ normalized_lines = <<>> /\ steps = <<>>
  /\ has_explicit_waits = FALSE
  /\ pc = "main"
  /\ idx = 1 /\ sent_count = 0 /\ status = -1 /\ error = ""
  /\ visited = <<>> /\ delivered = <<>> /\ pauses = <<>>

\* the checks of main before the instruction file is read: the message of
\* the first that fails, "" when all pass
Preflight ==
  IF ~fileExists THEN "Instruction file not found"
  ELSE IF suffix \notin {".txt", ".md"} THEN "Only .txt and .md instruction files are supported."
  ELSE IF ~dryRun /\ token = <<>> THEN "Missing WHATSAPP_TOKEN."
  ELSE IF ~dryRun /\ phone_number_id = <<>> THEN "Missing WHATSAPP_PHONE_NUMBER_ID."
  ELSE IF ~PhoneOk(to) THEN "Invalid phone number format."
  ELSE ""

\* any(isinstance(s, WaitStep) for s in steps)
HasExplicitWaits(ss) == \E i \in 1..Len(ss) : ss[i].kind = "WaitStep"

\* pacing between messages only: none after the last step
ShouldPaceBetween == ~has_explicit_waits /\ delay_seconds > 0 /\ idx < Len(steps)

\* pacing whatever the sequence holds
ShouldPaceAlways == delay_seconds > 0

\* the condition of the pacing sleep after a delivered message
ShouldPace == ~has_explicit_waits /\ delay_seconds > 0

\* main up to the loop: the checks, the file read and the compilation
Start ==
  /\ pc = "main"
  /\ IF Preflight # ""
     THEN /\ pc' = "exit" /\ status' = 1 /\ error' = Preflight
          /\ UNCHANGED <<source, steps, has_explicit_waits>>
     ELSE \E text \in RunTexts :
            /\ source' = text
            /\ steps' = parse_steps(text, suffix)
            /\ IF steps' = <<>>
               THEN /\ pc' = "exit" /\ status' = 1
                    /\ error' = "No actionable steps found in instruction file."
                    /\ UNCHANGED has_explicit_waits
               ELSE /\ pc' = "loop"
                    /\ has_explicit_waits' = HasExplicitWaits(steps')
                    /\ UNCHANGED <<status, error>>
  /\ UNCHANGED <<fileExists, suffix, dryRun, token, phone_number_id, to,
                 delay_seconds, normalized_lines, idx, sent_count, visited,
                 delivered, pauses>>

\* a WaitStep that sleeps in a dry run too
ExecWaitSleepsAlways ==
  /\ pc = "loop" /\ idx <= Len(steps)
  /\ steps[idx].kind = "WaitStep"
  /\ visited' = Append(visited, idx)
  /\ pauses' = Append(pauses, steps[idx].seconds)
  /\ idx' = idx + 1
  /\ UNCHANGED <<fileExists, suffix, dryRun, token, phone_number_id, to,
                 delay_seconds, source, normalized_lines, steps,
                 has_explicit_waits, pc, sent_count, status, error, delivered>>

\* one iteration of the loop on a WaitStep
ExecWait ==
  /\ pc = "loop" /\ idx <= Len(steps)
  /\ steps[idx].kind = "WaitStep"
  /\ visited' = Append(visited, idx)
  /\ pauses' = IF ~dryRun THEN Append(pauses, steps[idx].seconds) ELSE pauses
  /\ idx' = idx + 1
  /\ UNCHANGED <<fileExists, suffix, dryRun, token, phone_number_id, to,
                 delay_seconds, source, normalized_lines, steps,
                 has_explicit_waits, pc, sent_count, status, error, delivered>>

\* one iteration of the loop on a SendStep, in a dry run
ExecSendDry ==
  /\ pc = "loop" /\ idx <= Len(steps)
  /\ steps[idx].kind = "SendStep"
  /\ dryRun
  /\ visited' = Append(visited, idx)
  /\ sent_count' = sent_count + 1
  /\ idx' = idx + 1
  /\ UNCHANGED <<fileExists, suffix, dryRun, token, phone_number_id, to,
                 delay_seconds, source, normalized_lines, steps,
                 has_explicit_waits, pc, status, error, delivered, pauses>>

\* a SendStep outside a dry run: send_whatsapp_text is called and the
\* request is on its way
CallDeliver ==
  /\ pc = "loop" /\ idx <= Len(steps)
  /\ steps[idx].kind = "SendStep"
  /\ ~dryRun
  /\ visited' = Append(visited, idx)
  /\ delivered' = Append(delivered, steps[idx].text)
  /\ pc' = "send_whatsapp_text"
  /\ UNCHANGED <<fileExists, suffix, dryRun, token, phone_number_id, to,
                 delay_seconds, source, normalized_lines, steps,
                 has_explicit_waits, idx, sent_count, status, error, pauses>>

\* send_whatsapp_text returns: the count, the pacing sleep, the next step
DeliverReturns ==
  /\ pc = "send_whatsapp_text"
  /\ sent_count' = sent_count + 1
  /\ pauses' = IF ShouldPace THEN Append(pauses, delay_seconds) ELSE pauses
  /\ idx' = idx + 1
  /\ pc' = "loop"
  /\ UNCHANGED <<fileExists, suffix, dryRun, token, phone_number_id, to,
                 delay_seconds, source, normalized_lines, steps,
                 has_explicit_waits, status, error, visited, delivered>>

\* a failure that is caught and logged, the loop going on with the next step
DeliverRaisesCaught ==
  /\ pc = "send_whatsapp_text"
  /\ pc' = "loop" /\ idx' = idx + 1 /\ error' = "RuntimeError"
  /\ UNCHANGED <<fileExists, suffix, dryRun, token, phone_number_id, to,
                 delay_seconds, source, normalized_lines, steps,
                 has_explicit_waits, sent_count, status, visited, delivered,
                 pauses>>

\* a failure after which the same message is tried again
DeliverRaisesRetry ==
  /\ pc = "send_whatsapp_text"
  /\ pc' = "loop"
  /\ UNCHANGED <<fileExists, suffix, dryRun, token, phone_number_id, to,
                 delay_seconds, source, normalized_lines, steps,
                 has_explicit_waits, idx, sent_count, status, error, visited,
                 delivered, pauses>>

\* send_whatsapp_text raises RuntimeError: nothing in main catches it, the
\* interpreter prints the traceback and exits with status 1
DeliverRaises ==
  /\ pc = "send_whatsapp_text"
  /\ pc' = "exit" /\ status' = 1 /\ error' = "RuntimeError"
  /\ UNCHANGED <<fileExists, suffix, dryRun, token, phone_number_id, to,
                 delay_seconds, source, normalized_lines, steps,
                 has_explicit_waits, idx, sent_count, visited, delivered,
                 pauses>>

\* the loop is over: "Done. Sent messages", return 0
Finish ==
  /\ pc = "loop" /\ idx > Len(steps)
  /\ pc' = "exit" /\ status' = 0
  /\ UNCHANGED <<fileExists, suffix, dryRun, token, phone_number_id, to,
                 delay_seconds, source, normalized_lines, steps,
                 has_explicit_waits, idx, sent_count, error, visited,
                 delivered, pauses>>

Next ==
  \/ Start
  \/ ExecWait
  \/ ExecSendDry
  \/ CallDeliver
  \/ DeliverReturns
  \/ DeliverRaises
  \/ Finish

Spec == Init /\ [][Next]_vars

(***************************************************************************)
(* What the properties speak of.                                           *)
(***************************************************************************)
\* <<1, ..., n>>
UpTo(n) == [i \in 1..n |-> i]

\* n times x
Repeat(x, n) == [i \in 1..n |-> x]

\* the texts of the Send steps of ss, in order
RECURSIVE SendTextsOf(_)
SendTextsOf(ss) ==
  IF ss = <<>> THEN <<>>
  ELSE (IF Head(ss).kind = "SendStep" THEN <<Head(ss).text>> ELSE <<>>)
       \o SendTextsOf(Tail(ss))

\* the durations of the Wait steps of ss, in order
RECURSIVE WaitSecondsOf(_)
WaitSecondsOf(ss) ==
  IF ss = <<>> THEN <<>>
  ELSE (IF Head(ss).kind = "WaitStep" THEN <<Head(ss).seconds>> ELSE <<>>)
       \o WaitSecondsOf(Tail(ss))

CountSend(ss) == Len(SendTextsOf(ss))

ContainsWait(ss) == WaitSecondsOf(ss) # <<>>

\* the sleeps of a run outside dry run whose steps prefix all completed
PausesAfter(prefix) ==
  IF ContainsWait(steps) THEN WaitSecondsOf(prefix)
  ELSE IF delay_seconds > 0 THEN Repeat(delay_seconds, CountSend(prefix))
  ELSE <<>>

InLoop == pc \in {"loop", "send_whatsapp_text"} \/ (pc = "exit" /\ steps # <<>>)

DeliveryFailed == error = "RuntimeError"

\* C1: when send_whatsapp_text fails on a Send step the run is over at once:
\* the process has exited with a non-zero status and nothing is enabled any
\* more (no later step, no second call for the message), the failed call is
\* the last one made, the sent count is the number of Send steps before the
\* failed one, and the sleeps are those of the steps before it (none follows
\* the failed delivery).
C1_AbortOnDeliveryFailure ==
  DeliveryFailed =>
    /\ ~dryRun
    /\ pc = "exit" /\ status # 0
    /\ ~ENABLED Next
    /\ idx <= Len(steps) /\ steps[idx].kind = "SendStep"
    /\ visited = UpTo(idx)
    /\ delivered = SendTextsOf(Take(steps, idx))
    /\ sent_count = CountSend(Take(steps, idx - 1))
    /\ sent_count = Len(delivered) - 1
    /\ pauses = PausesAfter(Take(steps, idx - 1))

\* the second of two Send steps fails and a third step exists
C1_Witness ==
  /\ DeliveryFailed /\ sent_count = 1 /\ idx = 2 /\ Len(steps) = 3
  /\ Len(delivered) = 2

\* C2: steps are begun one at a time in sequence order, step n+1 only after
\* step n is complete, and the messages handed to send_whatsapp_text are a
\* prefix, in order, of the texts of the Send steps of the compiled file.
C2_SequentialInOrder ==
  /\ visited = UpTo(Len(visited))
  /\ pc = "loop" => Len(visited) = idx - 1
  /\ pc = "send_whatsapp_text" => Len(visited) = idx
  /\ Len(visited) <= Len(steps)
  /\ InLoop => steps = parse_steps(source, suffix)
  /\ Len(delivered) <= CountSend(steps)
  /\ delivered = Take(SendTextsOf(parse_steps(source, suffix)), Len(delivered))
  /\ delivered = SendTextsOf(Take(steps, Len(visited)))
       \/ (dryRun /\ delivered = <<>>)

\* the second of three messages is on its way
C2_Witness ==
  /\ pc = "send_whatsapp_text" /\ Len(delivered) = 2 /\ CountSend(steps) = 3
  /\ delivered[1] # delivered[2]

\* C3: outside dry run, over a sequence without Wait steps, every delivered
\* Send step is followed by one sleep of delay_seconds when that is
\* positive, the last step included, and by none when it is 0.
C3_PacingAfterEverySend ==
  (InLoop /\ ~dryRun /\ ~ContainsWait(steps)) =>
    /\ delay_seconds > 0 => pauses = Repeat(delay_seconds, sent_count)
    /\ delay_seconds = 0 => pauses = <<>>
    /\ pc = "loop" => sent_count = Len(delivered)
    /\ (pc = "exit" /\ status = 0) =>
         /\ sent_count = Len(steps)
         /\ Len(pauses) = (IF delay_seconds > 0 THEN Len(steps) ELSE 0)

\* three messages delivered, three sleeps
C3_Witness ==
  /\ pc = "exit" /\ status = 0 /\ ~dryRun /\ ~ContainsWait(steps)
  /\ Len(steps) = 3 /\ sent_count = 3 /\ pauses = <<2000, 2000, 2000>>

\* C4: when the sequence holds a Wait step anywhere, has_explicit_waits is
\* set before the loop, and outside dry run the sleeps are exactly the
\* durations of the Wait steps executed so far, whatever delay_seconds is;
\* Wait steps do not count as sent; a run that completes has slept once per
\* Wait step and counts every Send step.  SEND: Hi / WAIT: 5 / SEND: Bye
\* ends with 2 sent and one sleep of 5 seconds.
C4_ExplicitWaitsSuppressPacing ==
  /\ (InLoop /\ ContainsWait(steps)) => has_explicit_waits
  /\ (InLoop /\ ~dryRun /\ ContainsWait(steps)) =>
       /\ pc = "loop" =>
            /\ pauses = WaitSecondsOf(Take(steps, idx - 1))
            /\ sent_count = CountSend(Take(steps, idx - 1))
       /\ pc = "send_whatsapp_text" =>
            /\ pauses = WaitSecondsOf(Take(steps, idx))
            /\ sent_count = CountSend(Take(steps, idx - 1))
       /\ (pc = "exit" /\ status = 0) =>
            /\ pauses = WaitSecondsOf(steps)
            /\ sent_count = CountSend(steps)
  /\ ( /\ pc = "exit" /\ status = 0 /\ ~dryRun
       /\ source = join(<<"\n">>, << kSEND \o <<" ", "H", "i">>,
                                     kWAIT \o <<" ", "5">>,
                                     kSEND \o <<" ", "B", "y", "e">> >>) ) =>
       /\ steps = << SendStep(<<"H", "i">>), WaitStep(5000),
                     SendStep(<<"B", "y", "e">>) >>
       /\ sent_count = 2 /\ pauses = <<5000>>

\* SEND: Hi / WAIT: 5 / SEND: Bye delivered with a positive delay_seconds
C4_Witness ==
  /\ pc = "exit" /\ status = 0 /\ ~dryRun /\ delay_seconds > 0
  /\ Len(steps) = 3 /\ steps[2].kind = "WaitStep"
  /\ sent_count = 2 /\ pauses = <<5000>>

\* C5: in a dry run send_whatsapp_text is never called and nothing sleeps;
\* the steps are visited in order; once the loop is entered the run ends
\* with status 0, credentials or not, and the sent count is the number of
\* Send steps.
C5_DryRun ==
  dryRun =>
    /\ delivered = <<>> /\ pauses = <<>>
    /\ pc # "send_whatsapp_text"
    /\ visited = UpTo(Len(visited))
    /\ pc = "loop" => sent_count = CountSend(Take(steps, idx - 1))
    /\ (pc = "exit" /\ steps # <<>>) =>
         /\ status = 0 /\ error = ""
         /\ visited = UpTo(Len(steps))
         /\ sent_count = CountSend(steps)

\* a dry run without credentials over a Send and a Wait step has ended
C5_Witness ==
  /\ dryRun /\ token = <<>> /\ phone_number_id = <<>>
  /\ pc = "exit" /\ status = 0
  /\ ContainsWait(steps) /\ sent_count >= 1 /\ delay_seconds > 0

\* an error that is to end the run before the loop
PreExecutionError ==
  \/ ~fileExists
  \/ suffix \notin {".txt", ".md"}
  \/ ~dryRun /\ (token = <<>> \/ phone_number_id = <<>>)
  \/ Len(DigitsOf(to)) < 8
  \/ Len(DigitsOf(to)) > 15
  \/ pc # "main" /\ parse_steps(source, suffix) = <<>>

\* C6: with a missing or unsupported file, a missing credential outside dry
\* run, a recipient of fewer than 8 or more than 15 digits, or an empty
\* compiled sequence, the run never enters the loop (no step, no call, no
\* sleep) and ends with a non-zero status; status 0 is the end only of runs
\* that executed every step with no delivery failure.
C6_PreExecutionErrors ==
  /\ PreExecutionError =>
       /\ pc \in {"main", "exit"}
       /\ visited = <<>> /\ delivered = <<>> /\ pauses = <<>> /\ sent_count = 0
       /\ pc = "exit" => status # 0
  /\ (pc = "exit" /\ status = 0) =>
       /\ ~PreExecutionError
       /\ ~DeliveryFailed /\ error = ""
       /\ steps # <<>> /\ visited = UpTo(Len(steps))
       /\ sent_count = CountSend(steps)
       /\ ~dryRun => Len(delivered) = sent_count

\* a run that had everything but a recipient of 8 digits: it has 7
C6_Witness ==
  /\ pc = "exit" /\ status # 0
  /\ fileExists /\ suffix = ".md" /\ token # <<>> /\ phone_number_id # <<>>
  /\ Len(DigitsOf(to)) = 7

(***************************************************************************)
(* What the properties of parse_steps speak of: the directive grammar, the *)
(* blank-line-separated blocks and the markers, stated on their own.       *)
(***************************************************************************)
\* s without its leading and trailing whitespace
Trimmed(s) ==
  LET solid == {i \in 1..Len(s) : s[i] \notin Space}
  IN IF solid = {} THEN <<>>
     ELSE SubSeq(s, CHOOSE i \in solid : \A j \in solid : i <= j,
                    CHOOSE i \in solid : \A j \in solid : j <= i)

\* the number of leading characters of s that are in set
Leading(s, set) ==
  CHOOSE k \in 0..Len(s) :
    /\ \A i \in 1..k : s[i] \in set
    /\ k < Len(s) => s[k + 1] \notin set

IsBlank(line) == \A i \in 1..Len(line) : line[i] \in Space

\* digits, or digits "." digits
IsNumber(s) ==
  \E k \in 1..Len(s) :
    /\ \A i \in 1..k : s[i] \in Digits
    /\ \/ k = Len(s)
       \/ /\ k + 1 < Len(s) /\ s[k + 1] = "."
          /\ \A i \in (k + 2)..Len(s) : s[i] \in Digits

\* the word of a directive at the start of the trimmed line, in any case
HasWord(line, word) ==
  /\ Len(Trimmed(line)) >= Len(word)
  /\ \A i \in 1..Len(word) : Trimmed(line)[i] \in {word[i], Upper(word[i])}

\* what follows the colon, trimmed
Argument(line) == Trimmed(SubSeq(Trimmed(line), 6, Len(Trimmed(line))))

IsWaitLine(line) ==
  HasWord(line, <<"w", "a", "i", "t", ":">>) /\ IsNumber(Argument(line))

IsSendLine(line) ==
  HasWord(line, <<"s", "e", "n", "d", ":">>) /\ Argument(line) # <<>>

\* SEND: with nothing behind the colon
IsBareSendLine(line) ==
  HasWord(line, <<"s", "e", "n", "d", ":">>) /\ Argument(line) = <<>>

IsDirectiveLine(line) == IsWaitLine(line) \/ IsSendLine(line)

\* the step of each directive line, in file order
RECURSIVE StepsOfDirectives(_)
StepsOfDirectives(lines) ==
  IF lines = <<>> THEN <<>>
  ELSE (IF IsWaitLine(Head(lines)) THEN <<WaitStep(float(Argument(Head(lines))))>>
        ELSE IF IsSendLine(Head(lines)) THEN <<SendStep(Argument(Head(lines)))>>
        ELSE <<>>)
       \o StepsOfDirectives(Tail(lines))

Count(lines, P(_)) == Cardinality({i \in 1..Len(lines) : P(lines[i])})

SourceLines == splitlines(source)

DirectiveMode == \E i \in 1..Len(SourceLines) : IsDirectiveLine(SourceLines[i])

\* C7: when the text holds a line of the WAIT/SEND grammar the fallback pass
\* does not run: the result is one step per directive line, in file order,
\* a Wait of the number or a Send of the trimmed rest of the line, and the
\* other lines give no step.
C7_DirectivesSuppressFallback ==
  (pc = "parsed" /\ DirectiveMode) =>
    /\ steps = StepsOfDirectives(SourceLines)
    /\ Len(steps) = Count(SourceLines, IsDirectiveLine)
    /\ normalized_lines = <<>>

\* one directive among prose: a single step
C7_Witness ==
  /\ pc = "parsed" /\ DirectiveMode
  /\ Len(SourceLines) = 3 /\ Len(steps) = 1
  /\ \E i \in 1..3 : SourceLines[i] = <<"H", "i", " ", "y", "o">>

\* a Send step's text is not empty and neither starts nor ends with whitespace
SendTextsSolid ==
  \A i \in 1..Len(steps) :
    steps[i].kind = "SendStep" =>
      /\ steps[i].text # <<>>
      /\ steps[i].text[1] \notin Space
      /\ steps[i].text[Len(steps[i].text)] \notin Space

IsKeptLine(line) == ~IsBlank(line) /\ ~IsBareSendLine(line)

\* C8 as stated: every Send text is solid, and a SEND: line with nothing
\* behind the colon gives no step, so that there are at most as many steps
\* as lines that are neither blank nor such a SEND: line.
C8_Original ==
  pc = "parsed" =>
    /\ SendTextsSolid
    /\ Len(steps) <= Count(SourceLines, IsKeptLine)

\* C8, amended: every Send text is solid; among directives a SEND: line with
\* nothing behind the colon gives no step; without any directive line the
\* fallback pass takes it as prose, and there an all-blank block gives no
\* step.
C8_SendTextNeverBlank ==
  pc = "parsed" =>
    /\ SendTextsSolid
    /\ DirectiveMode => Len(steps) <= Count(SourceLines, IsKeptLine)
    /\ Len(steps) <= Len(SourceLines) - Count(SourceLines, IsBlank)
    /\ (\A i \in 1..Len(normalized_lines) : normalized_lines[i] = <<>>)
         => (DirectiveMode \/ steps = <<>>)

\* a SEND: line with nothing behind the colon beside a directive
C8_Witness ==
  /\ pc = "parsed"
  /\ SourceLines = <<kSEND, kSEND \o <<" ", "H", "i">> >>
  /\ steps = <<SendStep(<<"H", "i">>)>>

\* the blocks of lines: maximal runs of lines that are not blank, each the
\* trimmed lines joined by one space
RECURSIVE BlocksOf(_, _)
BlocksOf(lines, cur) ==
  IF lines = <<>> THEN (IF cur = <<>> THEN <<>> ELSE <<cur>>)
  ELSE IF IsBlank(Head(lines))
       THEN (IF cur = <<>> THEN <<>> ELSE <<cur>>) \o BlocksOf(Tail(lines), <<>>)
  ELSE BlocksOf(Tail(lines),
                IF cur = <<>> THEN Trimmed(Head(lines))
                ELSE cur \o <<" ">> \o Trimmed(Head(lines)))

\* C9: a plain-text file without directive lines compiles to one Send step
\* per blank-line-separated block, in file order, and nothing else; the text
\* is the block's trimmed lines joined by single spaces, without a newline.
C9_ParagraphsOfPlainText ==
  (pc = "parsed" /\ suffix = ".txt" /\ ~DirectiveMode) =>
    /\ Len(steps) = Len(BlocksOf(SourceLines, <<>>))
    /\ \A i \in 1..Len(steps) :
         /\ steps[i] = SendStep(BlocksOf(SourceLines, <<>>)[i])
         /\ \A j \in 1..Len(steps[i].text) : steps[i].text[j] # "\n"

\* a block of two lines
C9_Witness ==
  /\ pc = "parsed" /\ suffix = ".txt"
  /\ SourceLines = << <<"H", "i", " ", "y", "o">>, <<"\t", "a", " ">>, kSEND >>
  /\ steps = <<SendStep(<<"H", "i", " ", "y", "o", " ", "a", " ">> \o kSEND)>>

\* s without a leading heading marker: at most 3 whitespace characters, 1 to
\* 6 "#", and the whitespace behind them
NoHeading(s) ==
  LET w == Leading(s, Space)
      t == SubSeq(s, w + 1, Len(s))
      h == Leading(t, {"#"})
      u == SubSeq(t, (IF h > 6 THEN 6 ELSE h) + 1, Len(t))
  IN IF w <= 3 /\ h >= 1 THEN SubSeq(u, Leading(u, Space) + 1, Len(u)) ELSE s

\* whether s, behind whitespace, starts with a marker of n characters that
\* whitespace follows
MarkerThenSpace(s, n) ==
  /\ Leading(s, Space) + n < Len(s)
  /\ s[Leading(s, Space) + n + 1] \in Space

\* s behind the marker of n characters and the whitespace on both its sides
BehindMarker(s, n) ==
  LET t == SubSeq(s, Leading(s, Space) + n + 1, Len(s))
  IN SubSeq(t, Leading(t, Space) + 1, Len(t))

FirstSolid(s) ==
  IF Leading(s, Space) < Len(s) THEN s[Leading(s, Space) + 1] ELSE ""

HasBullet(s) == FirstSolid(s) \in {"-", "*", "+"} /\ MarkerThenSpace(s, 1)

\* the length of the "N." that s starts with behind whitespace, 0 if none
NumberedLength(s) ==
  LET t == SubSeq(s, Leading(s, Space) + 1, Len(s))
      d == Leading(t, Digits)
  IN IF d >= 1 /\ d < Len(t) /\ t[d + 1] = "." THEN d + 1 ELSE 0

HasNumbered(s) == NumberedLength(s) > 0 /\ MarkerThenSpace(s, NumberedLength(s))

NoBullet(s) == IF HasBullet(s) THEN BehindMarker(s, 1) ELSE s

NoNumbered(s) == IF HasNumbered(s) THEN BehindMarker(s, NumberedLength(s)) ELSE s

\* at most one list marker, of either kind
NoListMarker(s) ==
  IF HasBullet(s) THEN BehindMarker(s, 1)
  ELSE IF HasNumbered(s) THEN BehindMarker(s, NumberedLength(s))
  ELSE s

NoQuote(s) == IF FirstSolid(s) = ">" THEN BehindMarker(s, 1) ELSE s

\* the four lines the specification gives
MarkupExamples ==
  /\ source = <<"#", " ", "H", "e", "l", "l", "o">>
       => normalized_lines = << <<"H", "e", "l", "l", "o">> >>
  /\ source = <<"-", " ", "i", "t", "e", "m">>
       => normalized_lines = << <<"i", "t", "e", "m">> >>
  /\ source = <<">", " ", "q", "u", "o", "t", "e">>
       => normalized_lines = << <<"q", "u", "o", "t", "e">> >>
  /\ source = <<"1", ".", " ", "f", "i", "r", "s", "t">>
       => normalized_lines = << <<"f", "i", "r", "s", "t">> >>

\* C10 as stated: in the fallback pass a markup line loses at most one
\* heading marker, then at most one list marker (a bullet or "N."), then at
\* most one ">", and is trimmed; a plain-text line is only trimmed.
C10_Original ==
  (pc = "parsed" /\ ~DirectiveMode) =>
    /\ Len(normalized_lines) = Len(SourceLines)
    /\ \A i \in 1..Len(SourceLines) :
         normalized_lines[i] =
           IF suffix = ".md"
           THEN Trimmed(NoQuote(NoListMarker(NoHeading(SourceLines[i]))))
           ELSE Trimmed(SourceLines[i])
    /\ suffix = ".md" => MarkupExamples

\* C10, amended: in the fallback pass a markup line loses at most one
\* heading marker, then at most one bullet ("-", "*" or "+" and whitespace),
\* then at most one "N." and whitespace, then at most one ">", and is
\* trimmed, so that a bullet followed by a number loses both; a plain-text
\* line is only trimmed.
C10_MarkupLineNormalized ==
  (pc = "parsed" /\ ~DirectiveMode) =>
    /\ Len(normalized_lines) = Len(SourceLines)
    /\ \A i \in 1..Len(SourceLines) :
         normalized_lines[i] =
           IF suffix = ".md"
           THEN Trimmed(NoQuote(NoNumbered(NoBullet(NoHeading(SourceLines[i])))))
           ELSE Trimmed(SourceLines[i])
    /\ suffix = ".md" => MarkupExamples

\* a bullet and a number in front of the text
C10_Witness ==
  /\ pc = "parsed" /\ suffix = ".md"
  /\ source = <<"-", " ", "1", ".", " ", "f", "i", "r", "s", "t">>
  /\ normalized_lines = << <<"f", "i", "r", "s", "t">> >>

====
